---- MODULE Spec2Model ----
(***************************************************************************)
(* A model of pluto's Storm widget (src/pluto/widgets/storm.py): the       *)
(* QueryBar submission handler, the streaming consumer                     *)
(* Storm.on_query_bar_submitted, and the three views it writes (Nodes,     *)
(* Summary, Console).                                                      *)
(*                                                                         *)
(* Scheduling follows Textual's message pumps: every widget handles its    *)
(* own messages one at a time.  QueryBar.on_query_submitted has no await   *)
(* before its final emit, so it is one atomic step that ends by putting    *)
(* QueryBar.Submitted on Storm's queue.  Storm.on_query_bar_submitted      *)
(* suspends at every iteration of its `async for`; while it is suspended   *)
(* QueryBar may handle another submission, but Storm starts the next       *)
(* handler only after the current one has returned.                        *)
(***************************************************************************)
EXTENDS Integers, Sequences, FiniteSets, TLC

(* ---------------------------- bounds ----------------------------------- *)
\* storm.py:288 sets limit = 100; the model scales it down.
limit == 2
\* Console.__init__'s limit (default 1000), scaled down.
Console_limit == 3
\* Query.__init__'s max_history (default 1000), scaled down.
max_history == 3
\* number of submissions in a run of the consumer
MaxSubmits == 2
\* number of submissions in a run of the query input alone: enough to overflow the history
MaxEnters == 4
\* longest text of a print message, in characters
MaxTextLen == 2

\* stream messages delivered in a run, over all its cycles: enough for two
\* full buffers, a partial one and a terminal message
MaxMsgs == 6
\* lines the console is asked to print in a run: enough to pass its limit twice over
MaxLines == Console_limit + 2

(* ---------------------------- inputs ----------------------------------- *)
\* the stream does not depend on the text of the query, so one text is enough here
Queries == {"inet:ipv4"}
\* the texts typed into the query input when the history is exercised
QueryTexts == {"A", "BB"}
\* the keys pressed in the query input
Keys == {"up", "down", "a"}
Forms == {"inet:ipv4", "inet:fqdn"}
Errs == {<<"StormRuntimeError", "boom">>, <<"BadSyntax", "oops">>}
Finis == {[count |-> 250, took |-> 1500], [count |-> 0, took |-> 20]}
Chars == {"c", "NL"}
Texts == UNION {[1..n -> Chars] : n \in 0..MaxTextLen}

VARIABLES
    history,        \* Query.history, newest first
    history_index,  \* Query.history_index
    value,          \* Query.value, the text in the input control
    cursor_position, \* Query.cursor_position
    crashed,        \* a handler of Query raised: the application has stopped
    summary,        \* the Summary widget: its style classes and its content
    tables,         \* Nodes.tables: form -> rows of that form's DataTable
    first,          \* Console.first
    lines,          \* Console.lines
    children,       \* sequence numbers n of the mounted Static "line-n" of the Console
    storm_queue,    \* QueryBar.Submitted messages waiting in Storm's message queue
    pc,             \* Storm's handler: "idle", or "consuming" (suspended in the async for)
    cleared,        \* local `cleared` of on_query_bar_submitted
    buffer,         \* local `buffer` of on_query_bar_submitted
    nmsgs,          \* stream messages delivered so far in the run
    submitted,      \* history variable: submissions handled by QueryBar
    cycle,          \* history variable: handlers started by Storm
    received,       \* history variable: records received in the current cycle
    tablesAtStart,  \* history variable: tables when the current cycle started
    calls,          \* history variable: per cycle, calls of Nodes.clear / add_nodes / Summary.error / success,
                    \* the last 'err' and 'fini' payloads, and the records received before the last 'fini'
    statusBy        \* history variable: who wrote the summary last

vars == <<history, history_index, value, cursor_position, crashed, summary, tables, first, lines, children,
          storm_queue, pc, cleared, buffer, nmsgs, submitted, cycle, received,
          tablesAtStart, calls, statusBy>>

queryVars == <<history, history_index, value, cursor_position, crashed>>
consoleVars == <<first, lines, children>>
localVars == <<cleared, buffer>>

NoCalls == [clear |-> 0, loopFlush |-> 0, endFlush |-> 0, error |-> 0, success |-> 0,
            err |-> <<"", "">>, fini |-> [count |-> 0, took |-> 0], atFini |-> 0]

(* ---------------------------- Summary ---------------------------------- *)
\* f"{fini['took'] / 1000.0:.2f}": seconds and hundredths (took is a multiple of 10 here)
TookText(took) == <<took \div 1000, (took % 1000) \div 10>>

SummaryError(s, err) ==
    [classes |-> (s.classes \ {"running"}) \cup {"error"},
     content |-> <<"error", err[1], err[2]>>]

\* a slip: the running class is left on the widget
SummarySuccess_keeps_running(s, fini) ==
    [classes |-> s.classes \cup {"success"},
     content |-> <<"success", fini.count, TookText(fini.took)>>]

SummarySuccess(s, fini) ==
    [classes |-> (s.classes \ {"running"}) \cup {"success"},
     content |-> <<"success", fini.count, TookText(fini.took)>>]

SummaryRunning(s) ==
    [classes |-> (s.classes \ {"error", "success"}) \cup {"running"},
     content |-> <<"running...">>]

(* ---------------------------- Nodes ------------------------------------ *)
FormsOf(nodes) == {nodes[i].form : i \in 1..Len(nodes)}

RECURSIVE RowsOf(_, _)
RowsOf(nodes, form) ==
    IF nodes = <<>> THEN <<>>
    ELSE IF Head(nodes).form = form
         THEN <<Head(nodes).repr>> \o RowsOf(Tail(nodes), form)
         ELSE RowsOf(Tail(nodes), form)

\* a slip: the table's rows are set, not extended
add_nodes_replacing(tbls, nodes) ==
    [form \in DOMAIN tbls \cup FormsOf(nodes) |->
        IF form \in FormsOf(nodes) THEN RowsOf(nodes, form) ELSE tbls[form]]

add_nodes(tbls, nodes) ==
    [form \in DOMAIN tbls \cup FormsOf(nodes) |->
        (IF form \in DOMAIN tbls THEN tbls[form] ELSE <<>>) \o RowsOf(nodes, form)]

\* a slip: the tables are left in place
clear_nothing(tbls) == tbls

clear(tbls) == [form \in {} |-> <<>>]

(* ---------------------------- Console ---------------------------------- *)
RECURSIVE Split(_, _)
\* the pieces of text between its line breaks; cur is the piece being read
Split(text, cur) ==
    IF text = <<>> THEN <<cur>>
    ELSE IF Head(text) = "NL" THEN <<cur>> \o Split(Tail(text), <<>>)
         ELSE Split(Tail(text), Append(cur, Head(text)))

\* str.splitlines(): no line for an empty text, none after a final line break
splitlines(text) ==
    LET p == Split(text, <<>>)
    IN  IF p[Len(p)] = <<>> THEN SubSeq(p, 1, Len(p) - 1) ELSE p

\* json.dumps gives one line: line breaks inside strings are escaped
dumps(m) == <<"c">>

\* a slip: nothing is ever removed
print_keeps_all(con, n) ==
    [first |-> con.first, lines |-> con.lines + n,
     children |-> con.children \cup (con.lines..(con.lines + n - 1))]

RECURSIVE print(_, _)
\* Console.print over the lines still to mount; con = [first, lines, children]
print(con, n) ==
    IF n = 0 THEN con
    ELSE LET mounted == con.children \cup {con.lines}
             l == con.lines + 1
         IN  IF l - con.first = Console_limit
             THEN print([first |-> con.first + 1, lines |-> l,
                         children |-> mounted \ {con.first}], n - 1)
             ELSE print([first |-> con.first, lines |-> l, children |-> mounted], n - 1)

Con == [first |-> first, lines |-> lines, children |-> children]

ConsolePrint(text) ==
    LET n == Len(splitlines(text))
        c == print(Con, n)
    IN  /\ lines + n <= MaxLines
        /\ first' = c.first
        /\ lines' = c.lines
        /\ children' = c.children

(* ---------------------------- Query / QueryBar ------------------------- *)
\* a slip: the deque is created without maxlen
appendleft_unbounded(h, q) == <<q>> \o h

\* deque(maxlen=max_history).appendleft: a full deque drops its last element
appendleft(h, q) ==
    IF Len(h) = max_history THEN <<q>> \o SubSeq(h, 1, Len(h) - 1) ELSE <<q>> \o h

\* a slip: a query found anywhere in the history is not recorded again
record_unless_known(h, q) ==
    IF \E i \in 1..Len(h) : h[i] = q THEN h ELSE appendleft(h, q)

\* lines 136-139: the history after the query q is recorded
record(h, q) ==
    IF h = <<>> THEN Append(h, q)
    ELSE IF q # h[1] THEN appendleft(h, q)
    ELSE h

\* len() of the texts used here
len(text) ==
    IF text = "" THEN 0 ELSE IF text = "A" THEN 1 ELSE IF text = "BB" THEN 2 ELSE 9

\* Query.on_key, lines 91-104; history[i] of the deque is history[i + 1] here
on_key(key) ==
    /\ ~crashed
    /\ IF key \notin {"down", "up"}
       THEN UNCHANGED <<history_index, value, cursor_position, crashed>>
       ELSE LET idx == IF key = "down"
                       THEN IF history_index > 0 THEN history_index - 1 ELSE history_index
                       ELSE IF history_index < Len(history) - 1 THEN history_index + 1
                            ELSE history_index
            IN  /\ history_index' = idx
                /\ IF idx \in 0..(Len(history) - 1)
                   THEN /\ value' = history[idx + 1]
                        /\ cursor_position' = len(history[idx + 1])
                        /\ crashed' = FALSE
                   ELSE \* IndexError at line 103
                        /\ crashed' = TRUE
                        /\ UNCHANGED <<value, cursor_position>>
    /\ UNCHANGED <<history, summary, tables, consoleVars, storm_queue, pc, localVars,
                   nmsgs, submitted, cycle, received, tablesAtStart, calls, statusBy>>

\* the user edits the text of the input control (textual's Input)
Type(text) ==
    /\ ~crashed
    /\ value' = text
    /\ cursor_position' = len(text)
    /\ UNCHANGED <<history, history_index, crashed, summary, tables, consoleVars,
                   storm_queue, pc, localVars, nmsgs, submitted, cycle, received,
                   tablesAtStart, calls, statusBy>>

on_query_submitted(q) ==
    /\ ~crashed
    /\ history_index' = 0
    /\ history' = record(history, q)
    /\ summary' = SummaryRunning(summary)
    /\ storm_queue' = Append(storm_queue, q)
    /\ submitted' = submitted + 1
    /\ statusBy' = [who |-> "QueryBar", n |-> submitted + 1]
    /\ UNCHANGED <<crashed, tables, consoleVars, pc, localVars, nmsgs, cycle, received,
                   tablesAtStart, calls>>

\* enter is pressed in the input control: Query.Submitted carries its text
Enter ==
    /\ submitted < MaxEnters
    /\ on_query_submitted(value)
    /\ UNCHANGED <<value, cursor_position>>

\* the user types a query and presses enter
Submit(q) ==
    /\ submitted < MaxSubmits
    /\ value' = q
    /\ cursor_position' = len(q)
    /\ on_query_submitted(q)

(* ---------------------------- Storm ------------------------------------ *)
\* lines 272-290: the handler starts and suspends on the stream
Start ==
    /\ pc = "idle"
    /\ storm_queue # <<>>
    /\ storm_queue' = Tail(storm_queue)
    /\ pc' = "consuming"
    /\ cleared' = FALSE
    /\ buffer' = <<>>
    /\ cycle' = cycle + 1
    /\ received' = <<>>
    /\ tablesAtStart' = tables
    /\ calls' = NoCalls
    /\ UNCHANGED <<queryVars, summary, tables, consoleVars, nmsgs, submitted, statusBy>>

Receiving ==
    /\ pc = "consuming"
    /\ nmsgs < MaxMsgs
    /\ nmsgs' = nmsgs + 1

\* a slip: the buffer is flushed one record late
BufferFullLate(buf) == Len(buf) > limit

\* line 296
BufferFull(buf) == Len(buf) = limit

\* a slip: line 319's test is missing, add_nodes is called with no nodes
FinalFlushAlways(tbls, cls) ==
    /\ tables' = add_nodes(IF cleared THEN tbls ELSE clear(tbls), buffer)
    /\ calls' = [cls EXCEPT !.endFlush = @ + 1,
                            !.clear = IF cleared THEN @ ELSE @ + 1]

\* lines 318-324, reached at stream exhaustion and after the break of line 307
FinalFlush(tbls, cls) ==
    IF buffer # <<>>
    THEN /\ tables' = add_nodes(IF cleared THEN tbls ELSE clear(tbls), buffer)
         /\ calls' = [cls EXCEPT !.endFlush = @ + 1,
                                 !.clear = IF cleared THEN @ ELSE @ + 1]
    ELSE /\ tables' = tbls
         /\ calls' = cls

\* lines 293-303
RecvNode(form) ==
    /\ Receiving
    /\ LET node == [form |-> form, repr |-> <<cycle, Len(received) + 1>>]
           buf == Append(buffer, node)
       IN  /\ received' = Append(received, node)
           /\ IF BufferFull(buf)
              THEN /\ tables' = add_nodes(IF cleared THEN tables ELSE clear(tables), buf)
                   /\ cleared' = TRUE
                   /\ buffer' = <<>>
                   /\ calls' = [calls EXCEPT !.loopFlush = @ + 1,
                                             !.clear = IF cleared THEN @ ELSE @ + 1]
              ELSE /\ buffer' = buf
                   /\ UNCHANGED <<tables, cleared, calls>>
    /\ UNCHANGED <<queryVars, summary, consoleVars, storm_queue, pc, submitted, cycle,
                   tablesAtStart, statusBy>>

\* a slip: the break of line 307 is missing
RecvErr_continues(err) ==
    /\ Receiving
    /\ summary' = SummaryError(summary, err)
    /\ statusBy' = [who |-> "Storm", n |-> cycle]
    /\ calls' = [calls EXCEPT !.error = @ + 1, !.err = err]
    /\ UNCHANGED <<queryVars, tables, consoleVars, storm_queue, pc, localVars, submitted,
                   cycle, received, tablesAtStart>>

\* lines 305-307, then 318-324
RecvErr(err) ==
    /\ Receiving
    /\ summary' = SummaryError(summary, err)
    /\ statusBy' = [who |-> "Storm", n |-> cycle]
    /\ FinalFlush(tables, [calls EXCEPT !.error = @ + 1, !.err = err])
    /\ pc' = "idle"
    /\ UNCHANGED <<queryVars, consoleVars, storm_queue, localVars, submitted, cycle,
                   received, tablesAtStart>>

\* lines 309-310
RecvFini(fini) ==
    /\ Receiving
    /\ summary' = SummarySuccess(summary, fini)
    /\ statusBy' = [who |-> "Storm", n |-> cycle]
    /\ calls' = [calls EXCEPT !.success = @ + 1, !.fini = fini, !.atFini = Len(received)]
    /\ UNCHANGED <<queryVars, tables, consoleVars, storm_queue, pc, localVars, submitted,
                   cycle, received, tablesAtStart>>

\* lines 312-313
RecvPrint(text) ==
    /\ Receiving
    /\ ConsolePrint(text)
    /\ UNCHANGED <<queryVars, summary, tables, storm_queue, pc, localVars, submitted,
                   cycle, received, tablesAtStart, calls, statusBy>>

\* lines 315-316
RecvOther ==
    /\ Receiving
    /\ ConsolePrint(dumps("other"))
    /\ UNCHANGED <<queryVars, summary, tables, storm_queue, pc, localVars, submitted,
                   cycle, received, tablesAtStart, calls, statusBy>>

\* the stream is exhausted: the loop ends, lines 318-324 run and the handler returns
StreamEnd ==
    /\ pc = "consuming"
    /\ FinalFlush(tables, calls)
    /\ pc' = "idle"
    /\ UNCHANGED <<queryVars, summary, consoleVars, storm_queue, localVars, nmsgs,
                   submitted, cycle, received, tablesAtStart, statusBy>>

Init ==
    /\ history = <<>>
    /\ history_index = 0
    /\ value = ""
    /\ cursor_position = 0
    /\ crashed = FALSE
    /\ summary = [classes |-> {}, content |-> <<>>]
    /\ tables = [form \in {} |-> <<>>]
    /\ first = 0
    /\ lines = 0
    /\ children = {}
    /\ storm_queue = <<>>
    /\ pc = "idle"
    /\ cleared = FALSE
    /\ buffer = <<>>
    /\ nmsgs = 0
    /\ submitted = 0
    /\ cycle = 0
    /\ received = <<>>
    /\ tablesAtStart = [form \in {} |-> <<>>]
    /\ calls = NoCalls
    /\ statusBy = [who |-> "nobody", n |-> 0]

Next ==
    \/ \E q \in Queries : Submit(q)
    \/ Start
    \/ \E form \in Forms : RecvNode(form)
    \/ \E err \in Errs : RecvErr(err)
    \/ \E fini \in Finis : RecvFini(fini)
    \/ \E text \in Texts : RecvPrint(text)
    \/ RecvOther
    \/ StreamEnd

Spec == Init /\ [][Next]_vars

\* the query input alone: typing, keys and enter; Storm's queue keeps every
\* QueryBar.Submitted, so storm_queue is the sequence of the submitted queries
NextQuery ==
    \/ \E text \in QueryTexts : Type(text)
    \/ \E key \in Keys : on_key(key)
    \/ Enter

SpecQuery == Init /\ [][NextQuery]_vars

(* ============================ properties =============================== *)
\* a cycle has ended and no later one has started: calls, received, buffer,
\* cleared and tablesAtStart are those of that cycle
Ended == pc = "idle" /\ cycle > 0

Flushes == calls.loopFlush + calls.endFlush

\* the rows now in the tables, as <<form, row>>
AllRows(tbls) == UNION {{<<f, tbls[f][j]>> : j \in 1..Len(tbls[f])} : f \in DOMAIN tbls}

\* C1: after a cycle that a failure message ended, the tables hold no record
\* of the cycle beyond those flushed by a full buffer before the failure: the
\* records still buffered when the failure arrived are not in the tables.
C1_FailureDropsBuffered ==
    (Ended /\ calls.error > 0) =>
        \A r \in AllRows(tables) :
            r[2][1] = cycle => r[2][2] <= limit * calls.loopFlush

\* C2: a cycle that a failure message ended before any full-buffer flush
\* leaves the tables as they were when it started, and calls neither
\* Nodes.clear nor Nodes.add_nodes.
C2_EarlyFailureKeepsTables ==
    (Ended /\ calls.error > 0 /\ calls.loopFlush = 0) =>
        /\ tables = tablesAtStart
        /\ calls.clear = 0
        /\ calls.endFlush = 0

\* C3: once Console_limit + 1 lines have been printed the console holds
\* exactly Console_limit entries, and line 0 is the only one evicted.
C3_EvictsOnlyLineZero ==
    lines = Console_limit + 1 =>
        /\ Cardinality(children) = Console_limit
        /\ children = 1..Console_limit
        /\ first = 1

\* C4: the summary never carries two of the classes running, error, success.
C4_OneStatusClass ==
    Cardinality(summary.classes \cap {"running", "error", "success"}) <= 1

\* C5: a cycle that has ended reported exactly one terminal outcome: one call
\* of Summary.error or Summary.success, not none and not several.
C5_ExactlyOneOutcome ==
    Ended => calls.error + calls.success = 1

\* C6: the views have one writer per cycle: while a cycle of Storm consumes
\* its stream QueryBar handles no submission, and the status a cycle writes
\* belongs to the latest submission, so a Running written for a newer
\* submission is never overwritten by an earlier cycle.
C6_OneWriterPerCycle ==
    [][/\ pc = "consuming" => submitted' = submitted
       /\ statusBy'.who = "Storm" => statusBy'.n = submitted']_vars

\* C7: after a cycle without failure that received at least one record, the
\* tables are exactly the forms received, and the table of a form holds the
\* received records of that form, each once, in arrival order.
C7_RecordsOnceInArrivalOrder ==
    (Ended /\ calls.error = 0 /\ received # <<>>) =>
        /\ DOMAIN tables = FormsOf(received)
        /\ \A f \in DOMAIN tables :
             LET idx == {i \in 1..Len(received) : received[i].form = f}
             IN  /\ Len(tables[f]) = Cardinality(idx)
                 /\ \A j \in 1..Len(tables[f]) :
                      \E i \in idx :
                         /\ tables[f][j] = received[i].repr
                         /\ Cardinality({k \in idx : k < i}) = j - 1

C7_Witness ==
    /\ Ended /\ calls.error = 0
    /\ Len(received) > limit
    /\ FormsOf(received) = Forms
    /\ calls.loopFlush >= 1 /\ calls.endFlush = 1
    /\ DOMAIN tables = Forms

\* C8: with N records received the loop has flushed N div limit times, the
\* buffer holds the other N mod limit records, and a cycle without failure
\* ends with one more flush exactly when N mod limit is not 0.
C8_FlushCount ==
    /\ calls.loopFlush = Len(received) \div limit
    /\ pc = "consuming" =>
         /\ Len(buffer) = Len(received) % limit
         /\ calls.endFlush = 0
    /\ (Ended /\ calls.error = 0) =>
         calls.endFlush = IF Len(received) % limit # 0 THEN 1 ELSE 0

C8_Witness ==
    /\ Ended /\ calls.error = 0
    /\ Len(received) = 2 * limit + 1
    /\ calls.loopFlush = 2 /\ calls.endFlush = 1

\* C9: a cycle calls Nodes.clear at most once, in the step of its first
\* flush and in no other; once a cycle has flushed, every table is the table
\* of a form received in that cycle and holds rows of that cycle only.
C9_ClearedOnceAtFirstFlush ==
    /\ calls.clear = IF Flushes > 0 THEN 1 ELSE 0
    /\ (cycle > 0 /\ Flushes > 0) =>
         /\ DOMAIN tables \subseteq FormsOf(received)
         /\ \A r \in AllRows(tables) : r[2][1] = cycle

C9_Witness ==
    /\ Ended /\ cycle = 2 /\ Flushes > 0
    /\ \E f \in DOMAIN tables \cap DOMAIN tablesAtStart :
          /\ tablesAtStart[f] # <<>>
          /\ tables[f] # <<>>

\* C10: the buffer never holds more than limit records, and holds fewer than
\* limit whenever the consumer waits for the next message.
C10_BufferBelowLimit ==
    /\ Len(buffer) <= limit
    /\ pc = "consuming" => Len(buffer) < limit

C10_Witness ==
    /\ pc = "consuming"
    /\ Len(buffer) = limit - 1
    /\ calls.loopFlush >= 1

(* ---------------------- properties of the query input ------------------ *)
RECURSIVE Reverse(_)
Reverse(seq) == IF seq = <<>> THEN <<>> ELSE Append(Reverse(Tail(seq)), Head(seq))

RECURSIVE Squeeze(_)
\* seq with every run of equal neighbours reduced to one element
Squeeze(seq) ==
    IF Len(seq) <= 1 THEN seq
    ELSE IF seq[1] = seq[2] THEN Squeeze(Tail(seq))
         ELSE <<seq[1]>> \o Squeeze(Tail(seq))

FirstN(seq, n) == SubSeq(seq, 1, IF Len(seq) < n THEN Len(seq) ELSE n)

\* C11: the history is the sequence of the submitted queries with consecutive
\* duplicates suppressed (and only those), newest first, cut to max_history:
\* a submission equal to the newest entry changes nothing, any other becomes
\* entry 0.
C11_ConsecutiveDuplicatesOnly ==
    history = FirstN(Reverse(Squeeze(storm_queue)), max_history)

C11_Witness ==
    /\ storm_queue = <<"A", "A", "BB", "A">>
    /\ history = <<"A", "BB", "A">>

\* the cursor cannot move in the direction of the key
AtBoundary(key) ==
    \/ key = "down" /\ history_index = 0
    \/ key = "up" /\ history_index >= Len(history) - 1

\* C12: a press of up or down never changes the history, and at a boundary it
\* changes neither the cursor nor the text in the input control.
C12_BoundaryKeyIsNoOp ==
    [][\A key \in {"up", "down"} :
          on_key(key) =>
             /\ history' = history
             /\ AtBoundary(key) =>
                   /\ history_index' = history_index
                   /\ value' = value]_vars

\* C16: the history never holds more than max_history entries, and a query
\* recorded into a full history drops exactly the oldest entry: the others
\* keep their order behind the new entry 0.
C16_OldestDropped ==
    /\ [](Len(history) <= max_history)
    /\ [][(Len(history) = max_history /\ history' # history) =>
             /\ Len(history') = max_history
             /\ history'[1] = storm_queue'[Len(storm_queue')]
             /\ \A i \in 2..max_history : history'[i] = history[i - 1]]_vars

C16_Witness ==
    /\ Len(storm_queue) > max_history
    /\ Squeeze(storm_queue) = storm_queue
    /\ Len(history) = max_history

\* C18: every read of history[history_index] by Query.on_key is in range:
\* after a press of up or down, 0 <= history_index < len(history).
C18_ReadInRange ==
    [][\A key \in {"up", "down"} :
          on_key(key) => history_index' \in 0..(Len(history) - 1)]_vars

(* ---------------------- properties of the console ---------------------- *)
\* C13: the console never holds more than Console_limit entries; the held
\* entries are the contiguous range first..lines-1 of the latest sequence
\* numbers; a step mounts only numbers never used before, each larger than
\* all earlier ones, and removes only entries smaller than all it keeps.
C13_ConsoleWindow ==
    /\ [](/\ Cardinality(children) <= Console_limit
          /\ children = first..(lines - 1))
    /\ [][/\ lines' >= lines
          /\ children' \ children \subseteq lines..(lines' - 1)
          /\ \A e \in children \ children' : \A k \in children' : e < k]_vars

C13_Witness ==
    /\ lines > Console_limit
    /\ first >= 2
    /\ Cardinality(children) = Console_limit - 1

(* ---------------------- properties of the outcomes --------------------- *)
\* the summary was last written by the current cycle of Storm: no submission
\* has been handled since
OwnStatus == statusBy = [who |-> "Storm", n |-> cycle]

ShowsSuccess(fini) ==
    /\ "success" \in summary.classes
    /\ "running" \notin summary.classes
    /\ summary.content = <<"success", fini.count,
                           <<fini.took \div 1000, (fini.took % 1000) \div 10>>>>

ShowsError(err) ==
    /\ "error" \in summary.classes
    /\ "running" \notin summary.classes
    /\ summary.content = <<"error", err[1], err[2]>>

C17_FailureHaltsStream ==
    /\ [](calls.error > 0 =>
            /\ pc = "idle"
            /\ calls.error = 1
            /\ OwnStatus => ShowsError(calls.err))
    /\ [][(calls.error > 0 /\ cycle' = cycle) =>
             /\ nmsgs' = nmsgs
             /\ buffer' = buffer
             /\ tables' = tables
             /\ <<first, lines, children>>' = <<first, lines, children>>
             /\ summary' # summary => submitted' = submitted + 1]_vars

C17_Witness ==
    /\ calls.error = 1
    /\ pc = "idle"
    /\ nmsgs < MaxMsgs
    /\ buffer # <<>>
    /\ OwnStatus
    /\ ShowsError(calls.err)

====
